---------------------------- MODULE Spec2Model ----------------------------
(***************************************************************************)
(* quantum-cvrp: the QUBO encoding of a capacitated vehicle routing        *)
(* problem (wrappers/qubo.py) and the decoding of a sampler's bit          *)
(* assignment into routes (solvers/qbsolv.py).                             *)
(*                                                                         *)
(* A binary variable is the pair <<step, destination>>; a key of a         *)
(* coefficient map is a pair of variables.  A Python dict is a function    *)
(* whose DOMAIN is its key set.                                            *)
(*                                                                         *)
(* Numbers: line 85 of qubo.py divides by capacity ** 2.  Every            *)
(* coefficient is therefore held exactly, as an integer multiple of        *)
(* 1 / capacity^2 (Unit); Real(p, x) is the integer x in that unit.        *)
(***************************************************************************)
EXTENDS Integers, Sequences, FiniteSets, TLC

VARIABLES problem, params, sample, pc,
          objective_repr, constraints_repr, qubo, solution

vars == <<problem, params, sample, pc,
          objective_repr, constraints_repr, qubo, solution>>

(***************************************************************************)
(* Bounds of the model.                                                    *)
(***************************************************************************)
MaxLocations == 3
MaxVehicles == 2
MaxDeliveries == 2
MaxBits == 6
MaxCoord == 2
MaxDemand == 2
MaxCapacity == 2
MaxConst == 2

(***************************************************************************)
(* types.py: CVRPProblem                                                   *)
(***************************************************************************)
depot_idx == 0

\* location_idx = np.array(range(n)); Python index i is TLA+ index i + 1.
location_idx(p) == [i \in 1..p.n |-> i - 1]

\* location_idx[1:]
NonDepot(p) == SubSeq(location_idx(p), 2, p.n)

Abs(x) == IF x < 0 THEN -x ELSE x

\* The pairwise distance matrix of the coordinates: symmetric, zero diagonal.
compute_distances(coords) ==
    [i \in DOMAIN coords |-> [j \in DOMAIN coords |-> Abs(coords[i] - coords[j])]]

\* problem.costs, the table the decoder reads: the distance matrix.
costs(p) == compute_distances(p.coords)

Unit(p) == p.vehicle_capacity * p.vehicle_capacity

Real(p, x) == x * Unit(p)

(***************************************************************************)
(* Python containers                                                       *)
(***************************************************************************)
EmptyDict == [k \in {} |-> 0]

\* d.get(k, 0)
Get(d, k) == IF k \in DOMAIN d THEN d[k] ELSE 0

\* d[k] += x on a defaultdict(int): an absent key is created.
AddTo(d, k, x) ==
    IF k \in DOMAIN d THEN [d EXCEPT ![k] = @ + x] ELSE d @@ (k :> x)

\* The updates <<key, delta>> of a loop, applied in order from index i on.
\* Each update is carried out before the next one is looked at: its key is
\* in the dict from then on.
RECURSIVE AddAll(_, _, _)
AddAll(d, upd, i) ==
    IF i > Len(upd) THEN d
    ELSE LET next == AddTo(d, upd[i][1], upd[i][2])
         IN IF upd[i][1] \in DOMAIN next THEN AddAll(next, upd, i + 1) ELSE next

\* list(combinations(xs, 2)), in itertools' order.
Combinations2(xs) ==
    LET n == Len(xs)
        RECURSIVE From(_, _)
        From(i, j) ==
            IF i >= n THEN <<>>
            ELSE IF j > n THEN From(i + 1, i + 2)
            ELSE <<(<<xs[i], xs[j]>>)>> \o From(i, j + 1)
    IN From(1, 2)

\* list(range(a, b))
Range(a, b) == [i \in 1..(IF b > a THEN b - a ELSE 0) |-> a + i - 1]

\* list(product(xs, ys))
Product(xs, ys) ==
    [i \in 1..(Len(xs) * Len(ys)) |->
        <<xs[((i - 1) \div Len(ys)) + 1], ys[((i - 1) % Len(ys)) + 1]>>]

(***************************************************************************)
(* wrappers/qubo.py: vrp_objective_function                                *)
(***************************************************************************)
\* qubo.py 39-43: the transitions between consecutive steps of one block.
TransitionUpdates(p, cost_const, min_final, max_final) ==
    LET distances == compute_distances(p.coords)
        pairs == Product(Range(min_final + 1, max_final),
                         Product(location_idx(p), location_idx(p)))
    IN [i \in 1..Len(pairs) |->
          LET step == pairs[i][1]
              node1 == pairs[i][2][1]
              node2 == pairs[i][2][2]
          IN <<(<<(<<step, node1>>), (<<step + 1, node2>>)>>),
               Real(p, distances[node1][node2] * cost_const)>>]

\* qubo.py 46-63: depot -> first step and last step -> depot, on the diagonal.
DepotUpdates(p, cost_const, start, max_final) ==
    LET distances == compute_distances(p.coords)
    IN [i \in 1..(2 * p.n) |->
          LET destination == location_idx(p)[((i - 1) \div 2) + 1]
          IN IF i % 2 = 1
             THEN <<(<<(<<start, destination>>), (<<start, destination>>)>>),
                    Real(p, distances[depot_idx][destination] * cost_const)>>
             ELSE <<(<<(<<max_final, destination>>), (<<max_final, destination>>)>>),
                    Real(p, cost_const * distances[destination][depot_idx])>>]

\* qubo.py 31: the last step of the block that starts at start.
VrpMaxFinal(p, start) == start + Len(location_idx(p)) - 2

\* qubo.py 29-65: the loop over the vehicles.
RECURSIVE VrpVehicleLoop(_, _, _, _, _)
VrpVehicleLoop(p, cost_const, vehicle, start, variables) ==
    IF vehicle >= p.num_vehicles THEN variables
    ELSE LET min_final == start - 1
             max_final == VrpMaxFinal(p, start)
             v1 == AddAll(variables,
                          TransitionUpdates(p, cost_const, min_final, max_final), 1)
             v2 == AddAll(v1, DepotUpdates(p, cost_const, start, max_final), 1)
         IN VrpVehicleLoop(p, cost_const, vehicle + 1, max_final + 1, v2)

vrp_objective_function(p, cost_const) ==
    VrpVehicleLoop(p, cost_const, 0, 0, EmptyDict)

(***************************************************************************)
(* wrappers/qubo.py: cvrp_objective_function                               *)
(***************************************************************************)
\* qubo.py 85-86: cost_const * (demands[d1] * demands[d2] / capacity ** 2),
\* in units of 1 / capacity^2.
CapacityTerm(p, cost_const, d1, d2) ==
    cost_const * (p.demands[d1] * p.demands[d2])

\* qubo.py 81-87: the capacity terms of one block.
CapacityUpdates(p, cost_const, start, max_final) ==
    LET pairs == Product(Combinations2(NonDepot(p)),
                         Combinations2(Range(start, max_final + 1)))
    IN [i \in 1..(2 * Len(pairs)) |->
          LET pr == pairs[((i - 1) \div 2) + 1]
              d1 == pr[1][1]
              d2 == pr[1][2]
              s1 == pr[2][1]
              s2 == pr[2][2]
          IN IF i % 2 = 1
             THEN <<(<<(<<s1, d1>>), (<<s2, d2>>)>>), CapacityTerm(p, cost_const, d1, d2)>>
             ELSE <<(<<(<<s1, d2>>), (<<s2, d1>>)>>), CapacityTerm(p, cost_const, d1, d2)>>]

\* qubo.py 76-89: the loop over the vehicles.
RECURSIVE CvrpVehicleLoop(_, _, _, _, _)
CvrpVehicleLoop(p, cost_const, vehicle, start, variables) ==
    IF vehicle >= p.num_vehicles THEN variables
    ELSE LET max_final == start + Len(location_idx(p)) - 2
             v1 == AddAll(variables,
                          CapacityUpdates(p, cost_const, start, max_final), 1)
         IN CvrpVehicleLoop(p, cost_const, vehicle + 1, max_final + 1, v1)

cvrp_objective_function(p, cost_const) ==
    CvrpVehicleLoop(p, cost_const, 0, 0, vrp_objective_function(p, cost_const))

(***************************************************************************)
(* wrappers/qubo.py: constraints                                           *)
(***************************************************************************)
\* A penalty that takes constraint_const, not twice it, off the diagonal.
OneHotUpdatesHalfDiagonal(p, constraint_const, variables) ==
    LET diag == [i \in 1..Len(variables) |->
                   <<(<<variables[i], variables[i]>>),
                     Real(p, -constraint_const)>>]
        prod == Product(variables, variables)
        quad == [i \in 1..Len(prod) |-> <<prod[i], Real(p, constraint_const)>>]
    IN diag \o quad

\* qubo.py 102-105 and 110-113: the one-hot penalty of one group of variables.
OneHotUpdates(p, constraint_const, variables) ==
    LET diag == [i \in 1..Len(variables) |->
                   <<(<<variables[i], variables[i]>>),
                     Real(p, -(2 * constraint_const))>>]
        prod == Product(variables, variables)
        quad == [i \in 1..Len(prod) |-> <<prod[i], Real(p, constraint_const)>>]
    IN diag \o quad

\* qubo.py 100-105: every non-depot destination at one step.
RECURSIVE DestinationLoop(_, _, _, _, _)
DestinationLoop(p, constraint_const, steps, i, constraints_dict) ==
    IF i > Len(NonDepot(p)) THEN constraints_dict
    ELSE LET dest == NonDepot(p)[i]
             range == Range(0, steps)
             variables == [j \in 1..Len(range) |-> <<range[j], dest>>]
         IN DestinationLoop(p, constraint_const, steps, i + 1,
               AddAll(constraints_dict,
                      OneHotUpdates(p, constraint_const, variables), 1))

\* qubo.py 108-113: every step at one destination, the depot included.
RECURSIVE StepLoop(_, _, _, _, _)
StepLoop(p, constraint_const, steps, step, constraints_dict) ==
    IF step >= steps THEN constraints_dict
    ELSE LET variables == [j \in 1..p.n |-> <<step, location_idx(p)[j]>>]
         IN StepLoop(p, constraint_const, steps, step + 1,
               AddAll(constraints_dict,
                      OneHotUpdates(p, constraint_const, variables), 1))

constraints(p, constraint_const) ==
    LET steps == p.num_vehicles * p.max_deliveries
    IN StepLoop(p, constraint_const, steps, 0,
                DestinationLoop(p, constraint_const, steps, 1, EmptyDict))

(***************************************************************************)
(* wrappers/qubo.py: _wrap_vrp_qubo_problem, _wrap_cvrp_qubo_problem       *)
(***************************************************************************)
\* A combiner in which a constraint coefficient replaces the objective's.
CombineOverwrite(objective, constraint) ==
    [k \in (DOMAIN objective) \cup (DOMAIN constraint) |->
        IF k \in DOMAIN constraint THEN constraint[k] ELSE objective[k]]

\* qubo.py 139-142, 169-172: the dict comprehension over the union of keys.
Combine(objective, constraint) ==
    [k \in (DOMAIN objective) \cup (DOMAIN constraint) |->
        Get(objective, k) + Get(constraint, k)]

(***************************************************************************)
(* solvers/qbsolv.py: _unwrap_qbsolv_solution                              *)
(***************************************************************************)
\* qbsolv.py 45: the variables of the sample in the order the loop meets
\* them: increasing step, and increasing destination within a step.
SampleOrder(p) ==
    Product(Range(0, p.num_vehicles * p.max_deliveries), location_idx(p))

\* A decoder that keeps the depot among the stops of a route.
AppendStopAlways(vehicle_result, dest) == Append(vehicle_result, dest)

\* qbsolv.py 47-48
AppendStop(vehicle_result, dest) ==
    IF dest # 0 THEN Append(vehicle_result, dest) ELSE vehicle_result

\* qbsolv.py 52-54: the depot at the beginning and at the end.
CloseRoute(p, vehicle_result) ==
    <<p.depot_idx>> \o vehicle_result \o <<p.depot_idx>>

\* A decoder that closes one route too many.
AllVehiclesDoneLate(p, vehicle) == p.num_vehicles < vehicle

\* qbsolv.py 59: the loop ends once this holds of the vehicle counter.
AllVehiclesDone(p, vehicle) == p.num_vehicles <= vehicle

\* qbsolv.py 45-60: the decoding loop, from the i-th variable of the order on.
RECURSIVE DecodeLoop(_, _, _, _, _, _, _, _)
DecodeLoop(p, x, order, i, vehicle, step, vehicle_result, all_vehicles_results) ==
    IF i > Len(order) THEN all_vehicles_results
    ELSE IF x[order[i]] = 1
    THEN LET dest == order[i][2]
             vr == AppendStop(vehicle_result, dest)
         IN IF p.max_deliveries = step + 1
            THEN LET closed == Append(all_vehicles_results, CloseRoute(p, vr))
                 IN IF AllVehiclesDone(p, vehicle + 1) THEN closed
                    ELSE DecodeLoop(p, x, order, i + 1, vehicle + 1, 0, <<>>, closed)
            ELSE DecodeLoop(p, x, order, i + 1, vehicle, step + 1, vr,
                            all_vehicles_results)
    ELSE DecodeLoop(p, x, order, i + 1, vehicle, step, vehicle_result,
                    all_vehicles_results)

\* A cost loop that measures every leg from the first stop of the route.
RouteStepStalePrev(p, acc, dest) ==
    [cost |-> acc.cost + costs(p)[acc.prev][dest],
     demands_size |-> acc.demands_size + p.demands[dest],
     prev |-> acc.prev]

\* qbsolv.py 69-73: one route's legs; acc is [cost, demands_size, prev].
RouteStep(p, acc, dest) ==
    [cost |-> acc.cost + costs(p)[acc.prev][dest],
     demands_size |-> acc.demands_size + p.demands[dest],
     prev |-> dest]

RECURSIVE RouteLoop(_, _, _, _)
RouteLoop(p, vehicle_route, i, acc) ==
    IF i > Len(vehicle_route) THEN acc
    ELSE RouteLoop(p, vehicle_route, i + 1, RouteStep(p, acc, vehicle_route[i]))

\* qbsolv.py 63-75: cost and the demand of every route; acc is
\* [cost, total_demands_size].
RECURSIVE CostLoop(_, _, _, _)
CostLoop(p, all_vehicles_results, r, acc) ==
    IF r > Len(all_vehicles_results) THEN acc
    ELSE LET vehicle_route == all_vehicles_results[r]
         IN IF vehicle_route = <<>>
            THEN CostLoop(p, all_vehicles_results, r + 1, acc)
            ELSE LET done == RouteLoop(p, vehicle_route, 2,
                                 [cost |-> acc.cost, demands_size |-> 0,
                                  prev |-> vehicle_route[1]])
                 IN CostLoop(p, all_vehicles_results, r + 1,
                       [cost |-> done.cost + costs(p)[done.prev][p.depot_idx],
                        total_demands_size |->
                            Append(acc.total_demands_size, done.demands_size)])

unwrap_qbsolv_solution(p, x) ==
    LET all_vehicles_results == DecodeLoop(p, x, SampleOrder(p), 1, 0, 0, <<>>, <<>>)
        totals == CostLoop(p, all_vehicles_results, 1,
                           [cost |-> 0, total_demands_size |-> <<>>])
    IN [routes |-> all_vehicles_results,
        cost |-> totals.cost,
        total_demands |-> totals.total_demands_size]

(***************************************************************************)
(* Inputs                                                                  *)
(***************************************************************************)
\* The variable space of a problem: every step at every destination.
Steps(p) == 0..(p.num_vehicles * p.max_deliveries - 1)

Locations(p) == 0..(p.n - 1)

Variables(p) == Steps(p) \X Locations(p)

\* A CVRPProblem of n locations, the depot and at least one customer; the
\* depot is location 0 and has no demand.
Problems(vehicles, deliveries, capacities, coordinates, demandsizes) ==
    UNION { UNION { UNION {
        { [n |-> n, num_vehicles |-> nv, max_deliveries |-> md,
           vehicle_capacity |-> cap, depot_idx |-> depot_idx,
           coords |-> [i \in 0..(n - 1) |-> IF i = 0 THEN 0 ELSE c[i]],
           demands |-> [i \in 0..(n - 1) |-> IF i = 0 THEN 0 ELSE d[i]]] :
          c \in [1..(n - 1) -> coordinates], d \in [1..(n - 1) -> demandsizes],
          cap \in capacities }
        : md \in { m \in deliveries : nv * m * n <= MaxBits } }
        : nv \in vehicles } : n \in 2..MaxLocations }

NoSolution == [routes |-> <<>>, cost |-> 0, total_demands |-> <<>>]

InitOutputs ==
    /\ pc = "input"
    /\ objective_repr = EmptyDict
    /\ constraints_repr = EmptyDict
    /\ qubo = EmptyDict
    /\ solution = NoSolution

\* Decoding: every problem table and every bit assignment of the variable space.
InitDecode ==
    /\ problem \in Problems(1..MaxVehicles, 1..MaxDeliveries, {1},
                            0..MaxCoord, 0..MaxDemand)
    /\ params = [cost_const |-> 1, constraint_const |-> 1]
    /\ sample \in [Variables(problem) -> {0, 1}]
    /\ InitOutputs

\* Energies: every bit assignment, coordinates and pair of constants.
InitEnergy ==
    /\ problem \in Problems(1..MaxVehicles, 1..MaxDeliveries, {1},
                            0..MaxCoord, {0})
    /\ params \in [cost_const : 1..MaxConst, constraint_const : 1..MaxConst]
    /\ sample \in [Variables(problem) -> {0, 1}]
    /\ InitOutputs

\* Encoding: every shape, the malformed ones included (no vehicle, no
\* delivery, a negative capacity), every demand table and pair of constants.
\* A capacity of 0 is left out: line 85 of qubo.py divides by it.
InitEncode ==
    /\ problem \in Problems(0..MaxVehicles, 0..MaxDeliveries,
                            {-1} \cup 1..MaxCapacity, {1}, 0..MaxDemand)
    /\ params \in [cost_const : 1..MaxConst, constraint_const : 1..MaxConst]
    /\ sample = [v \in Variables(problem) |-> 0]
    /\ InitOutputs

(***************************************************************************)
(* Operations                                                              *)
(***************************************************************************)
\* qubo.py 136-142
WrapVrp ==
    /\ pc = "input"
    /\ LET objective == vrp_objective_function(problem, params.cost_const)
           constraint == constraints(problem, params.constraint_const)
       IN /\ objective_repr' = objective
          /\ constraints_repr' = constraint
          /\ qubo' = Combine(objective, constraint)
    /\ pc' = "wrapped_vrp"
    /\ UNCHANGED <<problem, params, sample, solution>>

\* qubo.py 166-172
WrapCvrp ==
    /\ pc = "input"
    /\ LET objective == cvrp_objective_function(problem, params.cost_const)
           constraint == constraints(problem, params.constraint_const)
       IN /\ objective_repr' = objective
          /\ constraints_repr' = constraint
          /\ qubo' = Combine(objective, constraint)
    /\ pc' = "wrapped_cvrp"
    /\ UNCHANGED <<problem, params, sample, solution>>

\* qbsolv.py 34-82
Unwrap ==
    /\ pc = "input"
    /\ solution' = unwrap_qbsolv_solution(problem, sample)
    /\ pc' = "unwrapped"
    /\ UNCHANGED <<problem, params, sample, objective_repr, constraints_repr, qubo>>

NextEncode == WrapVrp \/ WrapCvrp

NextDecode == Unwrap

SpecDecode == InitDecode /\ [][NextDecode]_vars

SpecEnergy == InitEnergy /\ [][NextEncode]_vars

SpecEncode == InitEncode /\ [][NextEncode]_vars

(***************************************************************************)
(* Vocabulary of the properties                                            *)
(***************************************************************************)
\* The value of a variable under an assignment; a variable the assignment
\* does not hold is not selected.
Bit(x, v) == IF v \in DOMAIN x THEN x[v] ELSE 0

\* The sum of coefficient * x[a] * x[b] over the keys <<a, b>> of a map.
RECURSIVE EnergyOver(_, _, _)
EnergyOver(d, x, keys) ==
    IF keys = {} THEN 0
    ELSE LET k == CHOOSE k \in keys : TRUE
         IN d[k] * Bit(x, k[1]) * Bit(x, k[2]) + EnergyOver(d, x, keys \ {k})

Energy(d, x) == EnergyOver(d, x, DOMAIN d)

\* How many steps select destination d, how many destinations step s selects.
SelectedOfDestination(p, x, d) == Cardinality({s \in Steps(p) : x[<<s, d>>] = 1})

SelectedOfStep(p, x, s) == Cardinality({d \in Locations(p) : x[<<s, d>>] = 1})

Customers(p) == Locations(p) \ {p.depot_idx}

\* Every step selects exactly one destination and every non-depot
\* destination is selected exactly once.
OneHot(p, x) ==
    /\ \A s \in Steps(p) : SelectedOfStep(p, x, s) = 1
    /\ \A d \in Customers(p) : SelectedOfDestination(p, x, d) = 1

WellFormed(p) ==
    /\ p.num_vehicles > 0
    /\ p.max_deliveries > 0
    /\ p.vehicle_capacity > 0

\* The steps of vehicle r (1, 2, ...) in blocks of max_deliveries steps.
Block(p, r) == ((r - 1) * p.max_deliveries)..(r * p.max_deliveries - 1)

Wrapped == pc \in {"wrapped_vrp", "wrapped_cvrp"}

(***************************************************************************)
(* Decoding (SpecDecode)                                                   *)
(***************************************************************************)
Unwrapped == pc = "unwrapped"

\* The steps of vehicle r's block that select the depot.
DepotSteps(p, x, r) ==
    Cardinality({s \in Block(p, r) : x[<<s, p.depot_idx>>] = 1})

EndsAtDepot(p, route) ==
    /\ Len(route) >= 2
    /\ route[1] = p.depot_idx
    /\ route[Len(route)] = p.depot_idx

\* C1, as stated: decoding a perfect assignment (every step selects exactly
\* one destination, every non-depot destination is selected exactly once)
\* yields exactly num_vehicles routes, each of length max_deliveries + 2,
\* each starting and ending at the depot.
C1_AsStated ==
    (Unwrapped /\ OneHot(problem, sample)) =>
        /\ Len(solution.routes) = problem.num_vehicles
        /\ \A r \in 1..Len(solution.routes) :
              /\ EndsAtDepot(problem, solution.routes[r])
              /\ Len(solution.routes[r]) = problem.max_deliveries + 2

\* C1, amended: decoding a perfect assignment yields exactly num_vehicles
\* routes, each starting and ending at the depot; the route of a vehicle has
\* length max_deliveries + 2 minus the number of steps of its block that
\* select the depot (so max_deliveries + 2 when no step selects the depot).
C1_RoundTrip ==
    (Unwrapped /\ OneHot(problem, sample)) =>
        /\ Len(solution.routes) = problem.num_vehicles
        /\ \A r \in 1..Len(solution.routes) :
              /\ EndsAtDepot(problem, solution.routes[r])
              /\ Len(solution.routes[r]) =
                    problem.max_deliveries + 2 - DepotSteps(problem, sample, r)

\* A perfect assignment of two vehicles decoded, one block with a depot step
\* and one route with a stop.
C1_Witness ==
    /\ Unwrapped
    /\ OneHot(problem, sample)
    /\ problem.num_vehicles = 2
    /\ \E r \in 1..2 : DepotSteps(problem, sample, r) > 0
    /\ \E r \in 1..Len(solution.routes) : Len(solution.routes[r]) > 2

\* The sum of distance[prev][curr] over the consecutive stops of a route.
RECURSIVE LegSum(_, _, _)
LegSum(p, route, i) ==
    IF i >= Len(route) THEN 0
    ELSE compute_distances(p.coords)[route[i]][route[i + 1]] + LegSum(p, route, i + 1)

\* The sum of the demands of the interior stops of a route, from stop i on.
RECURSIVE InteriorDemand(_, _, _)
InteriorDemand(p, route, i) ==
    IF i >= Len(route) THEN 0
    ELSE p.demands[route[i]] + InteriorDemand(p, route, i + 1)

RECURSIVE TotalLegs(_, _, _)
TotalLegs(p, routes, r) ==
    IF r > Len(routes) THEN 0
    ELSE LegSum(p, routes[r], 1) + TotalLegs(p, routes, r + 1)

\* C4: for every bit assignment the decoder's cost is the sum of
\* distance[prev][curr] over every consecutive pair of stops of every
\* returned route, and total_demands has one entry per returned route, the
\* sum of the demands of that route's interior stops.
C4_CostAndDemands ==
    Unwrapped =>
        /\ solution.cost = TotalLegs(problem, solution.routes, 1)
        /\ Len(solution.total_demands) = Len(solution.routes)
        /\ \A r \in 1..Len(solution.routes) :
              solution.total_demands[r] =
                  InteriorDemand(problem, solution.routes[r], 2)

\* A route of two stops at different places, with a cost and a demand.
C4_Witness ==
    /\ Unwrapped
    /\ solution.cost > 0
    /\ \E r \in 1..Len(solution.routes) :
          /\ Len(solution.routes[r]) = 4
          /\ problem.coords[solution.routes[r][2]] # problem.coords[solution.routes[r][3]]
          /\ solution.total_demands[r] > 0

\* C8, as stated: an assignment with a step of zero or several selected
\* destinations, or with an unselected non-depot destination, is answered
\* with a decode error: a Solution is returned for perfect assignments only.
C8_InfeasibleSampleRefused ==
    Unwrapped => OneHot(problem, sample)

\* The selected variables, in the order the decoder meets them.
SelectedVariables(p, x) ==
    LET Chosen(v) == x[v] = 1 IN SelectSeq(SampleOrder(p), Chosen)

\* The assignment that keeps the first num_vehicles * max_deliveries
\* selected variables of x and clears the later ones.
Truncate(p, x) ==
    LET sel == SelectedVariables(p, x)
        kept == {sel[i] : i \in 1..(IF Len(sel) < p.num_vehicles * p.max_deliveries
                                    THEN Len(sel)
                                    ELSE p.num_vehicles * p.max_deliveries)}
    IN [v \in DOMAIN x |-> IF v \in kept THEN 1 ELSE 0]

\* The selected variables that make up route r.
RouteSelection(p, x, r) ==
    SubSeq(SelectedVariables(p, x),
           (r - 1) * p.max_deliveries + 1, r * p.max_deliveries)

\* C9: for every bit assignment the decoder returns at most num_vehicles
\* routes; the selected variables after the one that closes the last route
\* do not change the result; every route begins and ends with the depot and
\* has between 0 and max_deliveries interior stops; a vehicle whose
\* selections are all the depot gets the route [depot, depot], with no
\* demand, and routes that are all [depot, depot] cost nothing.
C9_RouteShape ==
    Unwrapped =>
        /\ Len(solution.routes) <= problem.num_vehicles
        /\ solution = unwrap_qbsolv_solution(problem, Truncate(problem, sample))
        /\ \A r \in 1..Len(solution.routes) :
              /\ EndsAtDepot(problem, solution.routes[r])
              /\ Len(solution.routes[r]) - 2 \in 0..problem.max_deliveries
              /\ (\A i \in 1..problem.max_deliveries :
                      RouteSelection(problem, sample, r)[i][2] = problem.depot_idx)
                 => /\ solution.routes[r] = <<problem.depot_idx, problem.depot_idx>>
                    /\ solution.total_demands[r] = 0
        /\ (\A r \in 1..Len(solution.routes) :
                solution.routes[r] = <<problem.depot_idx, problem.depot_idx>>)
           => solution.cost = 0

\* Two routes closed, one of them [depot, depot], with selected variables
\* left over after the last route.
C9_Witness ==
    /\ Unwrapped
    /\ problem.num_vehicles = 2
    /\ Len(solution.routes) = 2
    /\ Truncate(problem, sample) # sample
    /\ \E r \in 1..2 : solution.routes[r] = <<problem.depot_idx, problem.depot_idx>>
    /\ \E r \in 1..2 : Len(solution.routes[r]) > 2

(***************************************************************************)
(* The constraint energy (SpecEnergy)                                      *)
(***************************************************************************)
\* (number selected - 1)^2 - 1
GroupPenalty(selected) == (selected - 1) * (selected - 1) - 1

RECURSIVE DestinationPenalty(_, _, _)
DestinationPenalty(p, x, ds) ==
    IF ds = {} THEN 0
    ELSE LET d == CHOOSE d \in ds : TRUE
         IN GroupPenalty(SelectedOfDestination(p, x, d))
              + DestinationPenalty(p, x, ds \ {d})

RECURSIVE StepPenalty(_, _, _)
StepPenalty(p, x, ss) ==
    IF ss = {} THEN 0
    ELSE LET s == CHOOSE s \in ss : TRUE
         IN GroupPenalty(SelectedOfStep(p, x, s)) + StepPenalty(p, x, ss \ {s})

\* The sum of the group penalties over every non-depot destination and
\* every step.
Penalty(p, x) ==
    DestinationPenalty(p, x, Customers(p)) + StepPenalty(p, x, Steps(p))

NumGroups(p) == Cardinality(Customers(p)) + Cardinality(Steps(p))

\* The diagonal of every variable: -2 * constraint_const off the depot,
\* -constraint_const at the depot.
DiagonalAccumulates(p, cmap, constraint_const) ==
    \A v \in Variables(p) :
        /\ <<v, v>> \in DOMAIN cmap
        /\ cmap[<<v, v>>] = Real(p, IF v[2] # p.depot_idx
                                    THEN -(2 * constraint_const)
                                    ELSE -constraint_const)

\* The constraint energy is the expansion of the two one-hot penalties.
IsExpansion(p, cmap, constraint_const, x) ==
    Energy(cmap, x) = Real(p, constraint_const * Penalty(p, x))

\* No assignment of the variable space has less constraint energy than x.
IsMinimiser(p, cmap, x) ==
    \A y \in [Variables(p) -> {0, 1}] : Energy(cmap, x) <= Energy(cmap, y)

\* Step s selects customer s + 1 while customers are left, then the depot.
FillInOrder(p) ==
    [v \in Variables(p) |->
        IF v[2] = (IF v[1] + 1 < p.n THEN v[1] + 1 ELSE p.depot_idx) THEN 1 ELSE 0]

\* The problem has room for every customer: a perfect assignment exists.
HasRoom(p) == p.n - 1 <= p.num_vehicles * p.max_deliveries

\* C3, as stated: the energy of the constraint map on any assignment is
\* constraint_const times the sum of the group penalties, the two families
\* accumulate on a shared diagonal, and the energy is minimal exactly on the
\* perfect assignments.
C3_AsStated ==
    Wrapped =>
        /\ IsExpansion(problem, constraints_repr, params.constraint_const, sample)
        /\ DiagonalAccumulates(problem, constraints_repr, params.constraint_const)
        /\ IsMinimiser(problem, constraints_repr, sample) <=> OneHot(problem, sample)

\* C3, amended: the energy of the constraint map on any assignment is
\* constraint_const times the sum of the group penalties, and the two
\* families accumulate on a shared diagonal.  When the problem has room for
\* every customer (n - 1 <= num_vehicles * max_deliveries) the energy is
\* minimal exactly on the perfect assignments: no assignment is below
\* -constraint_const per group, the perfect ones and only they are at that
\* value, and one of them exists.
C3_OneHotExpansion ==
    Wrapped =>
        LET A == params.constraint_const
            floor == Real(problem, -(A * NumGroups(problem)))
            E == Energy(constraints_repr, sample)
        IN /\ IsExpansion(problem, constraints_repr, A, sample)
           /\ DiagonalAccumulates(problem, constraints_repr, A)
           /\ E >= floor
           /\ HasRoom(problem) =>
                 /\ OneHot(problem, FillInOrder(problem))
                 /\ Energy(constraints_repr, FillInOrder(problem)) = floor
                 /\ (E = floor) <=> OneHot(problem, sample)

\* The constraint map of a problem with two vehicles and room for every
\* customer, evaluated on an assignment that selects two destinations at one
\* step.
C3_Witness ==
    /\ Wrapped
    /\ problem.num_vehicles = 2
    /\ problem.n = 3
    /\ HasRoom(problem)
    /\ \E s \in Steps(problem) : SelectedOfStep(problem, sample, s) = 2
    /\ Energy(constraints_repr, sample) > Real(problem, -(params.constraint_const * NumGroups(problem)))
    /\ params.constraint_const > 1

\* C10, as stated: on every perfect assignment the energy of the
\* vrp_objective_function map is cost_const times the cost the decoder
\* computes for the same assignment.
C10_EnergyIsDecodedCost ==
    (pc = "wrapped_vrp" /\ OneHot(problem, sample)) =>
        Energy(objective_repr, sample) =
            Real(problem, params.cost_const
                            * unwrap_qbsolv_solution(problem, sample).cost)

(***************************************************************************)
(* Encoding (SpecEncode)                                                   *)
(***************************************************************************)
\* The first and the last step of vehicle r's block.
FirstStep(p, r) == (r - 1) * p.max_deliveries

LastStep(p, r) == r * p.max_deliveries - 1

IsDiagonal(k) == k[1] = k[2]

\* C2, as stated: the objective encoders use the variable space of the
\* constraint encoder and the decoder.  Every variable in a key of the built
\* QUBO has its step in 0..num_vehicles*max_deliveries-1 and its destination
\* in location_idx, and the depot-ingress and depot-egress diagonal terms
\* sit on the first and the last step of each block of max_deliveries steps.
C2_SharedVariableSpace ==
    (Wrapped /\ WellFormed(problem)) =>
        /\ \A k \in DOMAIN qubo :
              k[1] \in Variables(problem) /\ k[2] \in Variables(problem)
        /\ \A k \in DOMAIN objective_repr :
              IsDiagonal(k) =>
                  \E r \in 1..problem.num_vehicles :
                      k[1][1] \in {FirstStep(problem, r), LastStep(problem, r)}
        /\ \A r \in 1..problem.num_vehicles : \A d \in Locations(problem) :
              /\ <<(<<FirstStep(problem, r), d>>), (<<FirstStep(problem, r), d>>)>>
                    \in DOMAIN objective_repr
              /\ <<(<<LastStep(problem, r), d>>), (<<LastStep(problem, r), d>>)>>
                    \in DOMAIN objective_repr

\* Two distinct non-depot destinations at two distinct steps, in increasing
\* order, of one block of max_deliveries steps.
CapacityPair(p, k) ==
    /\ k[1] \in Variables(p) /\ k[2] \in Variables(p)
    /\ k[1][2] # p.depot_idx /\ k[2][2] # p.depot_idx
    /\ k[1][2] # k[2][2]
    /\ k[1][1] < k[2][1]
    /\ k[1][1] \div p.max_deliveries = k[2][1] \div p.max_deliveries

\* C5, as stated: the map of cvrp_objective_function differs from the map
\* of vrp_objective_function by cost_const*demand[d1]*demand[d2]/capacity^2
\* on every key ((s1,d1),(s2,d2)) of two distinct non-depot destinations at
\* two steps s1 < s2 of one vehicle block, and nowhere else.
C5_CapacityPenalty ==
    (pc = "wrapped_cvrp" /\ WellFormed(problem)) =>
        LET vrp == vrp_objective_function(problem, params.cost_const)
            keys == (DOMAIN objective_repr) \cup (DOMAIN vrp)
                       \cup (Variables(problem) \X Variables(problem))
        IN \A k \in keys :
              Get(objective_repr, k) - Get(vrp, k) =
                  IF CapacityPair(problem, k)
                  THEN params.cost_const
                         * (problem.demands[k[1][2]] * problem.demands[k[2][2]])
                  ELSE 0

\* C6: the key set of the QUBO a wrapper returns is the union of the keys of
\* the objective map and of the constraint map, and every coefficient is the
\* objective value (0 when absent) plus the constraint value (0 when
\* absent).
C6_CombinerAdditivity ==
    Wrapped =>
        /\ DOMAIN qubo = (DOMAIN objective_repr) \cup (DOMAIN constraints_repr)
        /\ \A k \in DOMAIN qubo :
              qubo[k] = (IF k \in DOMAIN objective_repr THEN objective_repr[k] ELSE 0)
                      + (IF k \in DOMAIN constraints_repr THEN constraints_repr[k] ELSE 0)

\* A capacitated QUBO with a key that both maps give a coefficient other
\* than 0, a key of the objective alone and a key of the constraints alone.
C6_Witness ==
    /\ pc = "wrapped_cvrp"
    /\ \E k \in DOMAIN qubo :
          /\ k \in DOMAIN objective_repr /\ objective_repr[k] # 0
          /\ k \in DOMAIN constraints_repr /\ constraints_repr[k] # 0
    /\ \E k \in DOMAIN qubo : k \notin DOMAIN constraints_repr
    /\ \E k \in DOMAIN qubo : k \notin DOMAIN objective_repr

\* C7, as stated: a malformed problem (vehicle_capacity, num_vehicles or
\* max_deliveries not positive) is refused with a validation error: the
\* wrappers build coefficients for well-formed problems only.
C7_MalformedProblemRefused ==
    (Wrapped /\ DOMAIN qubo # {}) => WellFormed(problem)

=============================================================================
